---- MODULE Spec2Model ----
(***************************************************************************)
(* Football Squad Builder API: the squad statistics calculator             *)
(* (compute_squad_stats), the id-resolution step and the two calculation   *)
(* endpoints (calc_stats, calc_squad), and the squad store written by      *)
(* create_squad and update_squad.                                          *)
(*                                                                         *)
(* Representation.                                                         *)
(*  - Python None (JSON null) is the record None.                          *)
(*  - An ObjectId is a positive integer.  An id string is a record: the    *)
(*    24 hex digits of an ObjectId in lower or upper case, a string that   *)
(*    is no ObjectId, or the empty string.                                 *)
(*  - Of a squad document only _id and players are kept; name, formation   *)
(*    and meta play no part in any operation modelled here.                *)
(*  - avg_rating is kept in tenths: 917 stands for 91.7, 0 for 0.          *)
(*  - A Python dict is a record; a missing key is a missing field.         *)
(*  - `t is not p` compares object identity.  Every entry handed to        *)
(*    compute_squad_stats is a fresh dict made by serialize_doc, so two    *)
(*    entries are the same object exactly when they are the same list      *)
(*    position.                                                            *)
(***************************************************************************)
EXTENDS Integers, Sequences, FiniteSets, TLC

VARIABLES
    player,        \* db.player: the documents in insertion order, _id = position
    squad,         \* db.squad: the documents in insertion order, _id = position
    resp,          \* the last request served and its response, None before the first
    player_docs,   \* compute_squad_stats: its argument
    result         \* compute_squad_stats: its return value, None before the call

vars == <<player, squad, resp, player_docs, result>>

None == [py |-> "None"]

-----------------------------------------------------------------------------
(* Bounds and input universes *)

MaxLen == 3        \* longest list handed to compute_squad_stats in SpecCompute

Clubs == {"A", "B"}
Leagues == {"X", "Y"}
Nations == {"N1", "N2"}
Ratings == {91, 92}   \* schemas.Player.rating is an integer in 40..99

\* A player record as compute_squad_stats reads it.
PlayerRecords == [club : Clubs, league : Leagues, nation : Nations, rating : Ratings]

RECURSIVE SeqsUpTo(_, _)
SeqsUpTo(S, n) ==
    IF n = 0 THEN {<<>>}
    ELSE LET shorter == SeqsUpTo(S, n - 1)
         IN  shorter \cup {Append(s, x) : s \in {t \in shorter : Len(t) = n - 1}, x \in S}

-----------------------------------------------------------------------------
(* compute_squad_stats *)

MaxSlots == 11
MaxChemistry == 33

RECURSIVE SumSeq(_)
SumSeq(s) == IF s = <<>> THEN 0 ELSE Head(s) + SumSeq(Tail(s))

IsPlaced(p) == p # None

\* The mean cut to one decimal instead of rounded.
TruncTenths(total, n) == (10 * total) \div n

\* round(total / n, 1) in tenths.  total / n is the double nearest the quotient
\* and round() rounds that double correctly, half to even.  A quotient of
\* integers with n < 20 that lies exactly between two tenths ends in .25 or
\* .75, which a double holds exactly; any other quotient is further from a
\* tie than the division's error.
RoundTenths(total, n) ==
    LET q == (10 * total) \div n
        r == (10 * total) % n
    IN  IF 2 * r < n THEN q
        ELSE IF 2 * r > n THEN q + 1
        ELSE IF q % 2 = 0 THEN q ELSE q + 1

league_links(placed, i) ==
    Cardinality({j \in DOMAIN placed : j # i /\ placed[j].league = placed[i].league})

nation_links(placed, i) ==
    Cardinality({j \in DOMAIN placed : j # i /\ placed[j].nation = placed[i].nation})

Min(a, b) == IF a < b THEN a ELSE b

\* The league test that counts only a second league teammate.
LeagueRuleTwoTier(links) == links >= 2

LeagueRule(links) == links >= 2 \/ links >= 1

\* club_links counting only the teammates placed before player i.
club_links_earlier(placed, i) ==
    Cardinality({j \in DOMAIN placed : j < i /\ placed[j].club = placed[i].club})

club_links(placed, i) ==
    Cardinality({j \in DOMAIN placed : j # i /\ placed[j].club = placed[i].club})

score(placed, i) ==
    Min((IF club_links(placed, i) >= 1 THEN 2 ELSE 0)
        + (IF LeagueRule(league_links(placed, i)) THEN 1 ELSE 0)
        + (IF nation_links(placed, i) >= 1 THEN 1 ELSE 0),
        3)

\* The loop of lines 212-224: total_chem after the first k players.
RECURSIVE total_chem(_, _)
total_chem(placed, k) ==
    IF k = 0 THEN 0 ELSE total_chem(placed, k - 1) + score(placed, k)

RatingSum(placed) == SumSeq([i \in DOMAIN placed |-> placed[i].rating])

\* What Python raises when line 208 divides by len(placed) = 0.
ZeroDivisionError == [error |-> "ZeroDivisionError"]

EmptyStats == [players |-> 0, avg_rating |-> 0, chemistry |-> 0]

\* Lines 208-227 with max_chemistry scaled to the players placed.
FullStatsScaledMax(placed) ==
    IF Len(placed) = 0 THEN ZeroDivisionError
    ELSE [players |-> Len(placed),
          avg_rating |-> RoundTenths(RatingSum(placed), Len(placed)),
          chemistry |-> total_chem(placed, Len(placed)),
          max_chemistry |-> 3 * Len(placed)]

\* Lines 208-227: the statistics of a list of placed players.
FullStats(placed) ==
    IF Len(placed) = 0 THEN ZeroDivisionError
    ELSE [players |-> Len(placed),
          avg_rating |-> RoundTenths(RatingSum(placed), Len(placed)),
          chemistry |-> total_chem(placed, Len(placed)),
          max_chemistry |-> MaxChemistry]

Placed(docs) == SelectSeq(docs, IsPlaced)

\* compute_squad_stats without the early return of lines 205-206.
compute_squad_stats_unguarded(docs) == FullStats(Placed(docs))

compute_squad_stats(docs) ==
    IF Placed(docs) = <<>> THEN EmptyStats ELSE FullStats(Placed(docs))

-----------------------------------------------------------------------------
(* SpecCompute: the calculator applied to every bounded input *)

\* Two players that fill the longer lineups, at the two ends of the rating
\* range.
LineupFillers ==
    {[club |-> "A", league |-> "X", nation |-> "N1", rating |-> 99],
     [club |-> "A", league |-> "Y", nation |-> "N2", rating |-> 40]}

\* Every list of up to MaxLen optional records, and every longer list of up
\* to 11 of the two fillers.
ComputeInputs ==
    SeqsUpTo(PlayerRecords \cup {None}, MaxLen)
        \cup {s \in SeqsUpTo(LineupFillers, MaxSlots) : Len(s) > MaxLen}

InitCompute ==
    /\ player_docs \in ComputeInputs
    /\ result = None
    /\ player = <<>>
    /\ squad = <<>>
    /\ resp = None

Compute ==
    /\ result = None
    /\ result' = compute_squad_stats(player_docs)
    /\ UNCHANGED <<player_docs, player, squad, resp>>

NextCompute == Compute

SpecCompute == InitCompute /\ [][NextCompute]_vars

-----------------------------------------------------------------------------
(* Claims about compute_squad_stats, checked under SpecCompute *)

Computed == result # None

InputPlaced == Placed(player_docs)

SharesOther(placed, i, field) ==
    \E j \in DOMAIN placed : j # i /\ placed[j][field] = placed[i][field]

ClaimScore(placed, i) ==
    Min(3, (IF SharesOther(placed, i, "club") THEN 2 ELSE 0)
           + (IF SharesOther(placed, i, "league") THEN 1 ELSE 0)
           + (IF SharesOther(placed, i, "nation") THEN 1 ELSE 0))

ClaimChemistry(placed) == SumSeq([i \in DOMAIN placed |-> ClaimScore(placed, i)])

Attrs(p) == <<p.club, p.league, p.nation>>

ScenarioP1P2P3(placed) ==
    /\ Len(placed) = 3
    /\ Attrs(placed[1]) = <<"A", "X", "N1">>
    /\ Attrs(placed[2]) = <<"A", "Y", "N2">>
    /\ Attrs(placed[3]) = <<"B", "X", "N1">>

\* C1: chemistry is the sum over the placed players of min(3, 2*[another placed
\* player has p's club] + [another has p's league] + [another has p's nation]);
\* one placed player scores 0, two players sharing club, league and nation
\* total 6, and P1(A,X,N1), P2(A,Y,N2), P3(B,X,N1) total 7.
C1_Chemistry ==
    Computed =>
        /\ result.chemistry = ClaimChemistry(InputPlaced)
        /\ Len(InputPlaced) = 1 => result.chemistry = 0
        /\ (Len(InputPlaced) = 2 /\ Attrs(InputPlaced[1]) = Attrs(InputPlaced[2]))
               => result.chemistry = 6
        /\ ScenarioP1P2P3(InputPlaced) => result.chemistry = 7

C1_Witness ==
    /\ Computed
    /\ ScenarioP1P2P3(InputPlaced)
    /\ result.chemistry = 7

Reorder(docs, perm) == [i \in DOMAIN docs |-> docs[perm[i]]]

Exchange(dom, a, b) == [i \in dom |-> IF i = a THEN b ELSE IF i = b THEN a ELSE i]

\* The reorderings tried on a list: all of them up to MaxLen entries; on a
\* longer list the exchanges of two positions, which compose to every
\* reordering (the longer inputs are closed under them).
Reorderings(docs) ==
    IF Len(docs) <= MaxLen THEN Permutations(DOMAIN docs)
    ELSE {Exchange(DOMAIN docs, a, b) : a, b \in DOMAIN docs}

\* C2: every reordering of the input (the same placed players in other slots,
\* absent entries anywhere) gives the same players, avg_rating and chemistry.
C2_ReorderInvariant ==
    Computed =>
        \A perm \in Reorderings(player_docs) :
            LET other == compute_squad_stats(Reorder(player_docs, perm))
            IN  /\ other.players = result.players
                /\ other.avg_rating = result.avg_rating
                /\ other.chemistry = result.chemistry

C2_Witness ==
    /\ Computed
    /\ Len(player_docs) = 3
    /\ player_docs[2] = None
    /\ player_docs[1] # None /\ player_docs[3] # None
    /\ Attrs(player_docs[1]) # Attrs(player_docs[3])
    /\ result.chemistry > 0

\* C3: with no player placed (empty input or only absent entries) the result
\* is players 0, avg_rating 0, chemistry 0, and no error is raised.
C3_NoPlayers ==
    (Computed /\ InputPlaced = <<>>) =>
        /\ result # ZeroDivisionError
        /\ result.players = 0
        /\ result.avg_rating = 0
        /\ result.chemistry = 0

C3_Witness ==
    /\ Computed
    /\ Len(player_docs) = MaxLen
    /\ InputPlaced = <<>>
    /\ result.players = 0

\* C4 as stated: max_chemistry is 33 for every number of placed players,
\* zero included.
C4_Original ==
    Computed => ("max_chemistry" \in DOMAIN result /\ result.max_chemistry = 33)

\* C4 as amended: with at least one player placed max_chemistry is 33
\* whatever the number placed; with none placed the result carries no
\* max_chemistry field.
C4_MaxChemistry ==
    Computed =>
        /\ Len(InputPlaced) >= 1 =>
               ("max_chemistry" \in DOMAIN result /\ result.max_chemistry = 33)
        /\ Len(InputPlaced) = 0 => "max_chemistry" \notin DOMAIN result

C4_Witness ==
    /\ Computed
    /\ Len(InputPlaced) = MaxSlots
    /\ result.chemistry < 33
    /\ result.max_chemistry = 33

Abs(x) == IF x < 0 THEN -x ELSE x

\* C8: for at least one placed player avg_rating is the mean rating rounded
\* to one decimal: 10*avg_rating is an integer within 1/2 of 10*sum/n
\* (ratings 92, 92, 91 give 91.7); for one placed player it is that player's
\* rating.
C8_AvgRating ==
    (Computed /\ Len(InputPlaced) >= 1) =>
        LET n == Len(InputPlaced)
            total == RatingSum(InputPlaced)
        IN  /\ result.avg_rating \in Int
            /\ 2 * Abs(n * result.avg_rating - 10 * total) <= n
            /\ n = 1 => result.avg_rating = 10 * InputPlaced[1].rating
            /\ [i \in 1..n |-> InputPlaced[i].rating] = <<92, 92, 91>>
                   => result.avg_rating = 917

C8_Witness ==
    /\ Computed
    /\ Len(InputPlaced) = 3
    /\ [i \in 1..3 |-> InputPlaced[i].rating] = <<92, 92, 91>>
    /\ result.avg_rating = 917

-----------------------------------------------------------------------------
(* Id strings and ObjectId *)

Str(oid) == [hex |-> oid, case |-> "lower"]       \* str(ObjectId): lower-case hex
UpperStr(oid) == [hex |-> oid, case |-> "upper"]  \* the same digits in upper case
Malformed == [text |-> "not-an-id"]
Empty == [text |-> ""]

\* Python truth of an Optional[str]: None and "" are false.
Truthy(pid) == pid # None /\ pid # Empty

is_valid(s) == s # None /\ "hex" \in DOMAIN s

\* ObjectId(s), defined where it does not raise InvalidId.
ObjectId(s) == s.hex

find_one(coll, oid) == IF oid \in DOMAIN coll THEN coll[oid] ELSE None

serialize_doc(doc) ==
    IF doc = None THEN None
    ELSE [id |-> Str(doc._id), club |-> doc.club, league |-> doc.league,
          nation |-> doc.nation, rating |-> doc.rating]

-----------------------------------------------------------------------------
(* Responses *)

Ok(body) == [status |-> 200, body |-> body]
HTTPException(code, detail) == [status |-> code, detail |-> detail]
\* An exception no handler catches: the server answers 500.
Unhandled(exc) == [status |-> 500, detail |-> exc]
\* A request body the pydantic model rejects: the server answers 422.
ValidationError == [status |-> 422, detail |-> "validation"]

Served(op, req, r) == [op |-> op, req |-> req, status |-> r.status, out |-> r]

-----------------------------------------------------------------------------
(* calc_stats: POST /api/calc *)

\* Lines 236-251 as a function of the request and the player collection.
calc_stats_result(player_ids, coll) ==
    IF \E i \in DOMAIN player_ids : Truthy(player_ids[i]) /\ ~is_valid(player_ids[i])
    THEN Unhandled("InvalidId")                                       \* line 236
    ELSE
    LET ids == {ObjectId(player_ids[i]) : i \in {j \in DOMAIN player_ids : Truthy(player_ids[j])}}
        docs_by_id == {Str(o) : o \in ids \cap DOMAIN coll}            \* its keys
        resolve(pid) ==
            IF Truthy(pid) /\ pid \in docs_by_id
            THEN serialize_doc(coll[ObjectId(pid)])
            ELSE IF Truthy(pid)
            THEN IF is_valid(pid) THEN serialize_doc(find_one(coll, ObjectId(pid)))
                 ELSE None
            ELSE None
        ordered_docs == [i \in DOMAIN player_ids |-> resolve(player_ids[i])]
    IN  Ok([players |-> ordered_docs,
            stats |-> compute_squad_stats(SelectSeq(ordered_docs, IsPlaced))])

calc_stats(player_ids) ==
    /\ resp' = Served("calc_stats", player_ids, calc_stats_result(player_ids, player))
    /\ UNCHANGED <<player, squad, player_docs, result>>

-----------------------------------------------------------------------------
(* add_player: POST /api/players *)

MaxPlayers == 2    \* documents the player collection may hold

add_player(p) ==
    /\ Len(player) < MaxPlayers
    /\ player' = Append(player, [_id |-> Len(player) + 1, club |-> p.club,
                                 league |-> p.league, nation |-> p.nation,
                                 rating |-> p.rating])
    /\ resp' = Served("add_player", p, Ok(serialize_doc(player'[Len(player')])))
    /\ UNCHANGED <<squad, player_docs, result>>

-----------------------------------------------------------------------------
(* create_squad, update_squad: POST /api/squads, PUT /api/squads/{id} *)

MaxSquads == 1     \* documents the squad collection may hold

\* schemas.SquadPlayer: slot is an integer in 0..10, player_id a string.
SquadPlayerValid(sp) == sp.slot >= 0 /\ sp.slot <= 10 /\ sp.player_id # None

PlayersValid(players) == \A i \in DOMAIN players : SquadPlayerValid(players[i])

create_squad(players) ==
    IF ~PlayersValid(players)
    THEN /\ resp' = Served("create_squad", players, ValidationError)
         /\ UNCHANGED <<player, squad, player_docs, result>>
    ELSE IF players # <<>> /\ Len(players) > MaxSlots
    THEN /\ resp' = Served("create_squad", players,
                           HTTPException(400, "Max 11 players in starting XI"))
         /\ UNCHANGED <<player, squad, player_docs, result>>
    ELSE /\ Len(squad) < MaxSquads
         /\ squad' = Append(squad, [_id |-> Len(squad) + 1, players |-> players])
         /\ resp' = Served("create_squad", players, Ok(squad'[Len(squad')]))
         /\ UNCHANGED <<player, player_docs, result>>

\* The body carries the field players when the request gives a list (a dict
\* of model_dump(exclude_none=True) holds no key for a field left out);
\* body.other tells whether it carries a name or a formation.
update_squad(squad_id, body) ==
    LET req == [squad_id |-> squad_id, body |-> body]
        has_players == "players" \in DOMAIN body
        reject(r) == /\ resp' = Served("update_squad", req, r)
                     /\ UNCHANGED <<player, squad, player_docs, result>>
    IN  IF has_players /\ ~PlayersValid(body.players)
        THEN reject(ValidationError)
        ELSE IF ~is_valid(squad_id)
        THEN reject(HTTPException(400, "Invalid squad id"))
        ELSE IF has_players /\ body.players # <<>> /\ Len(body.players) > MaxSlots
        THEN reject(HTTPException(400, "Max 11 players"))
        ELSE IF ~has_players /\ ~body.other
        \* {"$set": {}}: the server either refuses the empty update or takes it
        \* as one that changes nothing, depending on its version.
        THEN \/ reject(Unhandled("WriteError"))
             \/ reject(IF ObjectId(squad_id) \in DOMAIN squad
                       THEN Ok(squad[ObjectId(squad_id)])
                       ELSE HTTPException(404, "Squad not found"))
        ELSE IF ObjectId(squad_id) \notin DOMAIN squad
        THEN reject(HTTPException(404, "Squad not found"))
        ELSE /\ squad' = IF has_players
                         THEN [squad EXCEPT ![ObjectId(squad_id)].players = body.players]
                         ELSE squad
             /\ resp' = Served("update_squad", req, Ok(squad'[ObjectId(squad_id)]))
             /\ UNCHANGED <<player, player_docs, result>>

-----------------------------------------------------------------------------
(* calc_squad: GET /api/squads/{id}/calc *)

SQUAD_SLOTS == [i \in 1..MaxSlots |-> i - 1]

\* The dict comprehension of line 306: a later entry of a slot replaces an
\* earlier one.
players_map_get(players, slot) ==
    LET at == {i \in DOMAIN players : players[i].slot = slot}
    IN  IF at = {} THEN None
        ELSE players[CHOOSE i \in at : \A j \in at : j <= i].player_id

slot_ids(players) == [i \in DOMAIN SQUAD_SLOTS |-> players_map_get(players, SQUAD_SLOTS[i])]

calc_squad_result(squad_id, squads, coll) ==
    IF ~is_valid(squad_id) THEN HTTPException(400, "Invalid squad id")
    ELSE IF find_one(squads, ObjectId(squad_id)) = None
    THEN HTTPException(404, "Squad not found")
    ELSE calc_stats_result(slot_ids(squads[ObjectId(squad_id)].players), coll)

\* calc_squad that also drops from the stored squad the entries whose player
\* it could not resolve.
calc_squad_pruning(squad_id) ==
    LET r == calc_squad_result(squad_id, squad, player)
        Resolves(sp) == is_valid(sp.player_id) /\ ObjectId(sp.player_id) \in DOMAIN player
    IN  /\ resp' = Served("calc_squad", squad_id, r)
        /\ squad' = IF r.status = 200
                     THEN [squad EXCEPT ![ObjectId(squad_id)].players = SelectSeq(@, Resolves)]
                     ELSE squad
        /\ UNCHANGED <<player, player_docs, result>>

calc_squad(squad_id) ==
    /\ resp' = Served("calc_squad", squad_id, calc_squad_result(squad_id, squad, player))
    /\ UNCHANGED <<player, squad, player_docs, result>>

-----------------------------------------------------------------------------
(* Spec: the server under every bounded sequence of requests *)

MaxIds == 2        \* longest freely chosen player_ids list of a calc request
MaxEntries == 2    \* longest freely chosen players list of a squad request

RECURSIVE Repeat(_, _)
Repeat(x, n) == IF n = 0 THEN <<>> ELSE Append(Repeat(x, n - 1), x)

\* The players a client adds to the catalog.
NewPlayers ==
    {[club |-> "A", league |-> "X", nation |-> "N1", rating |-> 92],
     [club |-> "A", league |-> "Y", nation |-> "N2", rating |-> 91]}

PlayerOidStrings == {Str(o) : o \in 1..MaxPlayers} \cup {UpperStr(1)}

\* What a client may put in one position of player_ids.
PlayerIdInputs == {None, Empty, Malformed} \cup PlayerOidStrings

\* Every short list, and one entry repeated over a whole lineup or one more.
CalcBodies ==
    SeqsUpTo(PlayerIdInputs, MaxIds)
        \cup {Repeat(x, n) : x \in {None, Str(1)}, n \in {MaxSlots, MaxSlots + 1}}

\* What a client may put in one entry of a squad's players; slot 11 is
\* outside the range the schema accepts.
SquadPlayerInputs ==
    {[slot |-> 0, player_id |-> Str(1)],
     [slot |-> 0, player_id |-> Str(2)],
     [slot |-> 10, player_id |-> Malformed],
     [slot |-> 11, player_id |-> Str(1)]}

\* n entries on slots 0, 1, ..., wrapping after slot 10, all of player pid.
Lineup(pid, n) == [i \in 1..n |-> [slot |-> (i - 1) % MaxSlots, player_id |-> pid]]

SquadBodies ==
    SeqsUpTo(SquadPlayerInputs, MaxEntries)
        \cup {Lineup(pid, n) : pid \in {Malformed, Str(1)}, n \in {MaxSlots, MaxSlots + 1}}

SquadIdInputs == {Malformed} \cup {Str(o) : o \in 1..(MaxSquads + 1)}

UpdateBodies ==
    {[players |-> ps, other |-> FALSE] : ps \in SquadBodies}
        \cup {[other |-> o] : o \in BOOLEAN}

Init ==
    /\ player = <<>>
    /\ squad = <<>>
    /\ resp = None
    /\ player_docs = <<>>
    /\ result = None

Next ==
    \/ \E p \in NewPlayers : add_player(p)
    \/ \E players \in SquadBodies : create_squad(players)
    \/ \E squad_id \in SquadIdInputs, body \in UpdateBodies : update_squad(squad_id, body)
    \/ \E player_ids \in CalcBodies : calc_stats(player_ids)
    \/ \E squad_id \in SquadIdInputs : calc_squad(squad_id)

Spec == Init /\ [][Next]_vars

-----------------------------------------------------------------------------
(* Claims about the endpoints, checked under Spec *)

CalcOps == {"calc_stats", "calc_squad"}

IsCalc(r) == r # None /\ r.op \in CalcOps

CalcAnswered == IsCalc(resp) /\ resp.status = 200

\* C5 as stated: every calculation answered by either path has
\* 0 <= players <= 11 and 0 <= chemistry <= 33, and no lineup of more than 11
\* entries reaches the calculator.
C5_Original ==
    CalcAnswered =>
        /\ resp.out.body.stats.players \in 0..MaxSlots
        /\ resp.out.body.stats.chemistry \in 0..MaxChemistry
        /\ Len(resp.out.body.players) <= MaxSlots

\* An id the catalog cannot resolve: not None, and malformed or matching no
\* player.
Unresolvable(pid) ==
    pid # None /\ (~is_valid(pid) \/ ObjectId(pid) \notin DOMAIN player)

Blanked(player_ids) ==
    [i \in DOMAIN player_ids |->
        IF Unresolvable(player_ids[i]) THEN None ELSE player_ids[i]]

\* C6 as stated: calc_stats raises no error; every non-null id that is
\* malformed or matches no player becomes None in its position, and the
\* answer is the one the request gets with those positions empty.
C6_Original ==
    (resp # None /\ resp.op = "calc_stats") =>
        /\ resp.status = 200
        /\ \A i \in DOMAIN resp.req :
               Unresolvable(resp.req[i]) => resp.out.body.players[i] = None
        /\ resp.out = calc_stats_result(Blanked(resp.req), player)

UniqueSlots(players) ==
    \A i, j \in DOMAIN players : players[i].slot = players[j].slot => i = j

IsSquadWrite(r) == r # None /\ r.op \in {"create_squad", "update_squad"}

RequestPlayers(r) ==
    IF r.op = "create_squad" THEN r.req
    ELSE IF "players" \in DOMAIN r.req.body THEN r.req.body.players ELSE <<>>

\* The half of C7 the code keeps: no stored squad has more than 11 entries,
\* and a create or update carrying more than 11 is answered with an error.
C7_AtMostEleven ==
    /\ \A s \in DOMAIN squad : Len(squad[s].players) <= MaxSlots
    /\ (IsSquadWrite(resp) /\ Len(RequestPlayers(resp)) > MaxSlots) => resp.status >= 400

\* C7 as stated: every stored squad has at most 11 entries and no two entries
\* with the same slot, and a create or update carrying more than 11 entries
\* is answered with an error.
C7_Original ==
    /\ C7_AtMostEleven
    /\ \A s \in DOMAIN squad : UniqueSlots(squad[s].players)

SlotOptions(players, slot) ==
    LET at == {i \in DOMAIN players : players[i].slot = slot}
    IN  IF at = {} THEN {None} ELSE {players[i].player_id : i \in at}

\* Every array of k elements whose element i is the player_id of an entry
\* with slot i - 1, or None when there is none.
RECURSIVE SlotArrays(_, _)
SlotArrays(players, k) ==
    IF k = 0 THEN {<<>>}
    ELSE {Append(a, x) : a \in SlotArrays(players, k - 1), x \in SlotOptions(players, k - 1)}

NonNull(docs) == Cardinality({i \in DOMAIN docs : docs[i] # None})

\* C10 as stated: for a stored squad calc_squad answers what calc_stats
\* answers for the 11-element array whose element i is the player_id of the
\* squad's entry with slot i, or None; an answer lists 11 players and counts
\* the non-null ones.  A well-formed id matching no stored squad gets a
\* not-found error and no calculation.
C10_Original ==
    (resp # None /\ resp.op = "calc_squad") =>
        IF is_valid(resp.req) /\ ObjectId(resp.req) \in DOMAIN squad
        THEN /\ \A a \in SlotArrays(squad[ObjectId(resp.req)].players, MaxSlots) :
                    resp.out = calc_stats_result(a, player)
             /\ resp.status = 200 =>
                    /\ Len(resp.out.body.players) = MaxSlots
                    /\ resp.out.body.stats.players = NonNull(resp.out.body.players)
        ELSE /\ resp.status >= 400
             /\ is_valid(resp.req) => resp.status = 404

====
